---- MODULE Spec2Model ----
(***************************************************************************)
(* Model of the ForumHive server (src/unnamed/part_000, lines 1-533, with  *)
(* the older registration handler of src/index.js beside it).              *)
(*                                                                         *)
(* The stores are the MongoDB collections.  Every request is handled by    *)
(* one handler invocation in a slot of req; a handler runs, as JavaScript  *)
(* does, without interruption from one awaited storage call to the next,   *)
(* so there is one action per storage call of a handler together with the  *)
(* synchronous code that follows it.  Handlers of different slots          *)
(* interleave at these points.                                             *)
(***************************************************************************)
EXTENDS Naturals, Integers, Sequences, FiniteSets, TLC

VARIABLES
    users,      \* userCollection: sequence of documents in insertion order
    posts,      \* postCollection: function from _id to document
    postSeq,    \* number of posts ever inserted (the next _id is postSeq + 1)
    comments,   \* commentsCollection: the _ids of the stored comments
    reports,    \* reportsCollection: function from _id to document
    reportSeq,  \* number of reports ever inserted
    payments,   \* paymentCollection: sequence of documents in insertion order
    req,        \* the handler invocation of every request slot
    now,        \* the clock, in days
    overlapped, \* history: a handler has started while another was in progress
    voted,      \* history: the votes of each kind that found each post
    jar         \* the session tokens the server has issued, each with its time

vars == <<users, posts, postSeq, comments, reports, reportSeq, payments, req, now, overlapped,
          voted, jar>>
stores == <<users, posts, postSeq, comments, reports, reportSeq, payments>>

-----------------------------------------------------------------------------
(* Bounds of the model *)

\* posts inserted before the clients stop posting
MaxPosts == 2
\* posts inserted in the runs that fill a tier's quota
MaxQuotaPosts == 12
\* user documents stored before the clients stop registering
MaxUsers == 2
\* reports inserted before the clients stop reporting
MaxReports == 3
\* payments recorded before the clients stop buying the membership
MaxPayments == 3
\* reports inserted before the clients stop reporting while the admin acts
MaxActedReports == 2
\* votes that find their post before the clients stop voting
MaxVotes == 2
\* session tokens issued before the clients stop signing in
MaxTokens == 1
\* the day the clock stops at
MaxTime == 16
\* the clock of the runs that do not advance it; tokens are issued at 0 or now
StartTime == 8

\* the handler invocations that may be in progress at once
Slots == {1, 2}
PostIds == 1..MaxPosts
ReportIds == 1..MaxReports

\* JSON null: an email the body or the token claim does not carry
NoEmail == "null"
Emails == {"a@x", "b@x"}
EmailVals == Emails \cup {NoEmail}
Usernames == {"ann", "bob"}
MemberShips == {"member", "non-member"}
Ips == {"ip1", "ip2"}
CommentIds == {"c1", "c2", "c3"}

-----------------------------------------------------------------------------
(* Requests *)

Idle == [route |-> "idle", pc |-> "idle"]

\* res.status(s).send({message: m}): the handler is over
Respond(q, s, m) == [q EXCEPT !.pc = "done", !.status = s, !.message = m]

SetReq(r, q) == req' = [req EXCEPT ![r] = q]

\* a handler invocation between its first step and its response
InProgress(q) == q.pc \notin {"idle", "done"}

\* a request arrives at a free slot
Arrive(r) ==
    /\ req[r].pc = "idle"
    /\ overlapped' = (overlapped \/ \E r2 \in Slots \ {r} : InProgress(req[r2]))

\* the response has left; the slot takes the next request
Close(r) ==
    /\ req[r].pc = "done"
    /\ SetReq(r, Idle)
    /\ UNCHANGED <<stores, now, voted, jar, overlapped>>

-----------------------------------------------------------------------------
(* Session tokens and the authentication gate *)

\* expiresIn: '7d'
ExpiresIn == 7

NoToken == [present |-> FALSE]
\* a jwtToken cookie: the claim it carries, its issue time, and whether it is
\* signed with JWT_SECRET
Tokens == [present : {TRUE}, email : EmailVals, iat : {0, StartTime}, signed : BOOLEAN]
Cookies == {NoToken} \cup Tokens
\* the cookies of clients that hold a fresh token of the server
FreshCookies == {c \in Tokens : c.signed /\ c.iat = StartTime}

\* jwt.verify: the signature, then the exp claim against the clock
JwtVerifyNoExpiry(token, t) == token.signed
JwtVerify(token, t) == token.signed /\ t < token.iat + ExpiresIn

\* the err jwt.verify hands to its callback: the signature is checked
\* first, then exp against the clock
JwtError(token, t) ==
    IF ~token.signed THEN "JsonWebTokenError"
    ELSE IF t >= token.iat + ExpiresIn THEN "TokenExpiredError"
    ELSE "none"

\* verifyJWT: what the gate answers, or the identity it attaches
verifyJWTSwapped(cookie, t) ==
    IF ~cookie.present
    THEN [next |-> 0, status |-> 403, message |-> "Forbidden"]
    ELSE IF ~JwtVerify(cookie, t)
    THEN [next |-> 0, status |-> 401, message |-> "Unauthorized access"]
    ELSE [next |-> 1, status |-> 0, message |-> "", decoded |-> [email |-> cookie.email]]
verifyJWT(cookie, t) ==
    IF ~cookie.present
    THEN [next |-> 0, status |-> 401, message |-> "Unauthorized access"]
    ELSE IF ~JwtVerify(cookie, t)
    THEN [next |-> 0, status |-> 403, message |-> "Forbidden"]
    ELSE [next |-> 1, status |-> 0, message |-> "", decoded |-> [email |-> cookie.email]]

\* A request on a gated route as it leaves verifyJWT: rejected, or with
\* req.decoded set and the next handler entered (nexts counts the calls of next)
Gated(q, cookie, t) ==
    LET g == verifyJWT(cookie, t)
        base == [q EXCEPT !.cookie = cookie, !.nexts = g.next]
    IN  IF g.next = 0
        THEN Respond(base, g.status, g.message)
        ELSE [base EXCEPT !.decoded = g.decoded]

\* a request record of a gated route before the gate has run
NewReq(route) ==
    [route |-> route, pc |-> "gate", status |-> 0, message |-> "",
     cookie |-> NoToken, nexts |-> 0, decoded |-> [email |-> NoEmail]]

Passed(q) == q.nexts = 1

-----------------------------------------------------------------------------
(* Storage operations *)

\* findOne({email}): the first matching document's position, 0 when none
FindUserBy(us, field, v) ==
    IF \E i \in 1..Len(us) : us[i][field] = v
    THEN CHOOSE i \in 1..Len(us) :
            /\ us[i][field] = v
            /\ \A j \in 1..(i - 1) : us[j][field] # v
    ELSE 0

\* updateOne({email}, {$inc: {postLimit: d}}): the first match only
IncPostLimitNone(us, email, d) == us
IncPostLimit(us, email, d) ==
    LET i == FindUserBy(us, "email", email)
    IN  IF i = 0 THEN us
        ELSE [us EXCEPT ![i].postLimit = @ + d]

\* countDocuments({authorEmail})
CountPosts(ps, email) == Cardinality({id \in DOMAIN ps : ps[id].authorEmail = email})

\* insertOne into a collection keyed by _id
InsertDoc(coll, id, doc) == [i \in DOMAIN coll \cup {id} |-> IF i = id THEN doc ELSE coll[i]]

\* deleteOne({_id})
DeleteDoc(coll, id) == [i \in DOMAIN coll \ {id} |-> coll[i]]

-----------------------------------------------------------------------------
(* POST /posts *)

\* member tier ceiling, non-member tier ceiling
MemberCeiling == 10
NonMemberCeiling == 5

\* decodedEmail !== postData.authorEmail, decodedEmail !== email
EmailMismatchNever(decodedEmail, email) == FALSE
EmailMismatch(decodedEmail, email) == decodedEmail # email

\* the two tier checks of the handler
LimitExceededLate(memberShip, postCount) ==
    IF memberShip = "member" THEN postCount > MemberCeiling + 1
    ELSE IF memberShip = "non-member" THEN postCount > NonMemberCeiling + 1
    ELSE FALSE
LimitExceededAtCeiling(memberShip, postCount) ==
    IF memberShip = "member" THEN postCount >= MemberCeiling
    ELSE IF memberShip = "non-member" THEN postCount >= NonMemberCeiling
    ELSE FALSE
LimitExceeded(memberShip, postCount) ==
    IF memberShip = "member" THEN postCount > MemberCeiling
    ELSE IF memberShip = "non-member" THEN postCount > NonMemberCeiling
    ELSE FALSE

\* the request arrives: verifyJWT, the ownership check, then
\* postCollection.countDocuments({authorEmail: decodedEmail})
CreatePostCount(r, cookie, postData) ==
    /\ Arrive(r)
    /\ LET q == Gated([NewReq("POST /posts") EXCEPT !.pc = "findMember"] @@
                      [postData |-> postData, postCount |-> 0], cookie, now)
       IN  SetReq(r, IF ~Passed(q) THEN q
                     ELSE IF EmailMismatch(q.decoded.email, postData.authorEmail)
                     THEN Respond(q, 403, "Forbidden: email mismatch")
                     ELSE [q EXCEPT !.postCount = CountPosts(posts, q.decoded.email)])
    /\ UNCHANGED <<stores, now, voted, jar>>

\* userCollection.findOne({email: decodedEmail}) and the checks on its result
CreatePostFindMemberUnlessBlocked(r) ==
    /\ req[r].route = "POST /posts" /\ req[r].pc = "findMember"
    /\ LET q == req[r]
           i == FindUserBy(users, "email", q.decoded.email)
       IN  SetReq(r, IF i = 0
                     THEN Respond(q, 403, "Forbidden: user not found")
                     ELSE IF users[i].isBlocked \/ LimitExceeded(users[i].memberShip, q.postCount)
                     THEN Respond(q, 403, "Post limit exceeded")
                     ELSE [q EXCEPT !.pc = "insert"])
    /\ UNCHANGED <<stores, now, voted, jar, overlapped>>
CreatePostFindMember(r) ==
    /\ req[r].route = "POST /posts" /\ req[r].pc = "findMember"
    /\ LET q == req[r]
           i == FindUserBy(users, "email", q.decoded.email)
       IN  SetReq(r, IF i = 0
                     THEN Respond(q, 403, "Forbidden: user not found")
                     ELSE IF LimitExceeded(users[i].memberShip, q.postCount)
                     THEN Respond(q, 403, "Post limit exceeded")
                     ELSE [q EXCEPT !.pc = "insert"])
    /\ UNCHANGED <<stores, now, voted, jar, overlapped>>

\* postCollection.insertOne(postData)
CreatePostInsert(r) ==
    /\ req[r].route = "POST /posts" /\ req[r].pc = "insert"
    /\ posts' = InsertDoc(posts, postSeq + 1, req[r].postData)
    /\ postSeq' = postSeq + 1
    /\ SetReq(r, [req[r] EXCEPT !.pc = "decrement"])
    /\ UNCHANGED <<users, comments, reports, reportSeq, payments, now, voted, jar, overlapped>>

\* userCollection.updateOne({email: decodedEmail}, {$inc: {postLimit: -1}})
CreatePostDecrement(r) ==
    /\ req[r].route = "POST /posts" /\ req[r].pc = "decrement"
    /\ users' = IncPostLimit(users, req[r].decoded.email, -1)
    /\ SetReq(r, Respond(req[r], 200, "insertedId"))
    /\ UNCHANGED <<posts, postSeq, comments, reports, reportSeq, payments, now, voted, jar, overlapped>>

-----------------------------------------------------------------------------
(* DELETE /posts/:id *)

\* post.authorEmail !== decodedEmail, on the document findOne returned; the
\* request's body is not consulted
AuthorMismatchByBody(post, body, decodedEmail) == body.authorEmail # decodedEmail
AuthorMismatch(post, body, decodedEmail) == post.authorEmail # decodedEmail

\* the request arrives: verifyJWT, postCollection.findOne({_id}) and the
\* checks on its result
DeletePostFind(r, cookie, id, body) ==
    /\ Arrive(r)
    /\ LET q == Gated([NewReq("DELETE /posts/:id") EXCEPT !.pc = "deletePost"] @@
                      [id |-> id, body |-> body], cookie, now)
       IN  SetReq(r, IF ~Passed(q) THEN q
                     ELSE IF id \notin DOMAIN posts
                     THEN Respond(q, 404, "Post not found")
                     ELSE IF AuthorMismatch(posts[id], body, q.decoded.email)
                     THEN Respond(q, 403, "Forbidden: email mismatch")
                     ELSE q)
    /\ UNCHANGED <<stores, now, voted, jar>>

\* postCollection.deleteOne({_id})
DeletePostDelete(r) ==
    /\ req[r].route = "DELETE /posts/:id" /\ req[r].pc = "deletePost"
    /\ posts' = DeleteDoc(posts, req[r].id)
    /\ SetReq(r, [req[r] EXCEPT !.pc = "increment"])
    /\ UNCHANGED <<users, postSeq, comments, reports, reportSeq, payments, now, voted, jar, overlapped>>

\* userCollection.updateOne({email: decodedEmail}, {$inc: {postLimit: 1}})
DeletePostIncrement(r) ==
    /\ req[r].route = "DELETE /posts/:id" /\ req[r].pc = "increment"
    /\ users' = IncPostLimit(users, req[r].decoded.email, 1)
    /\ SetReq(r, Respond(req[r], 200, "Post deleted successfully"))
    /\ UNCHANGED <<posts, postSeq, comments, reports, reportSeq, payments, now, voted, jar, overlapped>>

-----------------------------------------------------------------------------
(* GET /posts/user/:email/count and GET /posts/user/:email *)

\* the request arrives: verifyJWT, the ownership check, then
\* postCollection.countDocuments({authorEmail: email}); res.send({count})
OwnCount(r, cookie, email) ==
    /\ Arrive(r)
    /\ LET q == Gated(NewReq("GET /posts/user/:email/count") @@
                      [email |-> email, data |-> {}], cookie, now)
       IN  SetReq(r, IF ~Passed(q) THEN q
                     ELSE IF EmailMismatch(q.decoded.email, email)
                     THEN Respond(q, 403, "Forbidden: email mismatch")
                     ELSE Respond([q EXCEPT !.data = {CountPosts(posts, email)}],
                                  200, "count"))
    /\ UNCHANGED <<stores, now, voted, jar>>

\* the request arrives: verifyJWT, parseInt(limit), the ownership check, then
\* postCollection.find({authorEmail: email}), cut to limit documents when
\* limit is a number other than 0 (the order is by the client-supplied
\* createdAt, so any limit of them may be the page)
OwnPosts(r, cookie, email, limit) ==
    /\ Arrive(r)
    /\ LET q == Gated(NewReq("GET /posts/user/:email") @@
                      [email |-> email, limit |-> limit, data |-> {}], cookie, now)
           own == {id \in DOMAIN posts : posts[id].authorEmail = email}
       IN  IF ~Passed(q) THEN SetReq(r, q)
           ELSE IF EmailMismatch(q.decoded.email, email)
           THEN SetReq(r, Respond(q, 403, "Forbidden: email mismatch"))
           ELSE \E page \in SUBSET own :
                   /\ IF limit # 0 /\ limit < Cardinality(own)
                      THEN Cardinality(page) = limit
                      ELSE page = own
                   /\ SetReq(r, Respond([q EXCEPT !.data = page], 200, "posts"))
    /\ UNCHANGED <<stores, now, voted, jar>>

\* the POST /posts handlers that have yet to insert
Creating ==
    Cardinality({r \in Slots : req[r].route = "POST /posts"
                                /\ req[r].pc \in {"findMember", "insert"}})

\* what a client may send as a post
PostBodies == [authorEmail : EmailVals, upVote : {0}, downVote : {0}]

-----------------------------------------------------------------------------
(* User documents *)

User(email, username, role, memberShip) ==
    [email |-> email, username |-> username, role |-> role, memberShip |-> memberShip,
     postLimit |-> 5, isBlocked |-> FALSE, warning |-> FALSE, badges |-> <<"Bronze">>,
     lastSignIn |-> 0, lastSignInIp |-> "ip1"]

Ann(memberShip) == User("a@x", "ann", "user", memberShip)
Bob(role) == User("b@x", "bob", role, "member")

NoRequests == [r \in Slots |-> Idle]

\* no vote has found any post
NoVotes == [id \in PostIds |-> [upVote |-> 0, downVote |-> 0]]

InitStores(us) ==
    /\ users = us
    /\ posts = <<>> /\ postSeq = 0
    /\ comments = {}
    /\ reports = <<>> /\ reportSeq = 0
    /\ payments = <<>>
    /\ req = NoRequests
    /\ now = StartTime
    /\ overlapped = FALSE
    /\ voted = NoVotes
    /\ jar = {}

-----------------------------------------------------------------------------
(* Creation and deletion of posts by two registered users and a client     *)
(* whose token carries no email, two requests at a time                    *)

InitPosts == InitStores(<<Ann("non-member"), Bob("user")>>)

NextPosts ==
    \E r \in Slots :
        \/ /\ postSeq + Creating < MaxPosts
           /\ \E cookie \in FreshCookies, postData \in PostBodies :
                 CreatePostCount(r, cookie, postData)
        \/ CreatePostFindMember(r)
        \/ CreatePostInsert(r)
        \/ CreatePostDecrement(r)
        \/ \E cookie \in FreshCookies, id \in PostIds, body \in [authorEmail : Emails] :
              DeletePostFind(r, cookie, id, body)
        \/ DeletePostDelete(r)
        \/ DeletePostIncrement(r)
        \/ Close(r)

SpecPosts == InitPosts /\ [][NextPosts]_vars

\* C1: a post leaves the store only in the deleteOne of a DELETE /posts/:id
\* request whose verified identity is the post's stored authorEmail, whatever
\* the request's body says; a request of any other verified identity for a
\* stored post is answered 403 and the post stays as it is
C1_OnlyAuthorDeletes ==
    [][\A id \in DOMAIN posts :
          /\ id \notin DOMAIN posts' =>
                \E r \in Slots :
                    /\ req[r].route = "DELETE /posts/:id"
                    /\ req[r].pc = "deletePost"
                    /\ req'[r].pc = "increment"
                    /\ req[r].id = id
                    /\ req[r].decoded.email = posts[id].authorEmail
          /\ \A r \in Slots :
                ( /\ req[r].pc = "idle"
                  /\ req'[r].route = "DELETE /posts/:id"
                  /\ req'[r].nexts = 1
                  /\ req'[r].id = id
                  /\ req'[r].decoded.email # posts[id].authorEmail )
                => /\ req'[r].pc = "done"
                   /\ req'[r].status = 403
                   /\ id \in DOMAIN posts'
                   /\ posts'[id] = posts[id]
      ]_vars

\* a foreign DELETE was answered 403 with the post still stored, and the
\* author's own DELETE of another post has removed it, the body naming
\* somebody else
C1_Witness ==
    \E r1, r2 \in Slots :
        /\ req[r1].route = "DELETE /posts/:id" /\ req[r1].pc = "done"
        /\ req[r1].status = 403 /\ req[r1].message = "Forbidden: email mismatch"
        /\ req[r1].id \in DOMAIN posts
        /\ posts[req[r1].id].authorEmail # req[r1].decoded.email
        /\ req[r1].body.authorEmail = req[r1].decoded.email
        /\ req[r2].route = "DELETE /posts/:id" /\ req[r2].pc = "done"
        /\ req[r2].status = 200
        /\ req[r2].id \notin DOMAIN posts
        /\ req[r2].body.authorEmail # req[r2].decoded.email

-----------------------------------------------------------------------------
(* Creation of posts and the reads of one's own posts, two requests at a   *)
(* time                                                                    *)

NextOwn ==
    \E r \in Slots :
        \/ /\ postSeq + Creating < MaxPosts
           /\ \E cookie \in FreshCookies, postData \in PostBodies :
                 CreatePostCount(r, cookie, postData)
        \/ CreatePostFindMember(r)
        \/ CreatePostInsert(r)
        \/ CreatePostDecrement(r)
        \/ \E cookie \in FreshCookies, email \in Emails : OwnCount(r, cookie, email)
        \/ \E cookie \in FreshCookies, email \in Emails, limit \in {0, 1} :
              OwnPosts(r, cookie, email, limit)
        \/ Close(r)

SpecOwn == InitPosts /\ [][NextOwn]_vars

OwnRoutes == {"GET /posts/user/:email/count", "GET /posts/user/:email"}

\* the email a request of one of the three ownership-checked routes names
NamedEmail(q) == IF q.route = "POST /posts" THEN q.postData.authorEmail ELSE q.email

\* C5: a post enters the store only in the insertOne of a POST /posts request
\* whose verified identity is the post's authorEmail and has a user record;
\* the two reads answer with data only to the identity the path names; and a
\* request of these routes whose verified identity differs from the email it
\* names is answered 403 with posts and users unchanged
C5_OwnershipOnCreateAndRead ==
    [][/\ \A id \in DOMAIN posts' \ DOMAIN posts :
             \E r \in Slots :
                 /\ req[r].route = "POST /posts" /\ req[r].pc = "insert"
                 /\ req'[r].pc = "decrement"
                 /\ posts'[id].authorEmail = req[r].decoded.email
                 /\ FindUserBy(users, "email", req[r].decoded.email) # 0
       /\ \A r \in Slots :
             /\ ( /\ req[r].pc = "idle"
                  /\ req'[r].route \in OwnRoutes
                  /\ req'[r].status = 200 \/ req'[r].data # {} )
                => /\ req'[r].nexts = 1
                   /\ req'[r].decoded.email = req'[r].email
                   /\ req'[r].route = "GET /posts/user/:email/count"
                         => req'[r].data = {CountPosts(posts, req'[r].decoded.email)}
                   /\ req'[r].route = "GET /posts/user/:email"
                         => \A id \in req'[r].data :
                               /\ id \in DOMAIN posts
                               /\ posts[id].authorEmail = req'[r].decoded.email
             /\ ( /\ req[r].pc = "idle"
                  /\ req'[r].route \in OwnRoutes \cup {"POST /posts"}
                  /\ req'[r].nexts = 1
                  /\ req'[r].decoded.email # NamedEmail(req'[r]) )
                => /\ req'[r].pc = "done"
                   /\ req'[r].status = 403
                   /\ posts' = posts
                   /\ users' = users
      ]_vars

\* a post of ann's is stored, bob's read of ann's posts was answered 403 and
\* ann's own read returned the post
C5_Witness ==
    \E r1, r2 \in Slots :
        /\ req[r1].route = "GET /posts/user/:email" /\ req[r1].pc = "done"
        /\ req[r1].status = 403 /\ req[r1].decoded.email = "b@x"
        /\ req[r1].email = "a@x"
        /\ req[r2].route = "GET /posts/user/:email" /\ req[r2].pc = "done"
        /\ req[r2].status = 200 /\ req[r2].decoded.email = "a@x"
        /\ req[r2].data # {}
        /\ \E id \in DOMAIN posts : posts[id].authorEmail = "a@x"

-----------------------------------------------------------------------------
(* One author filling the quota of the tier: ann's creations one after the *)
(* other, beside bob's, who has no user document, and requests that name   *)
(* somebody else as the author                                             *)

InitQuota == \E memberShip \in MemberShips : InitStores(<<Ann(memberShip)>>)

NextQuota ==
    \/ /\ postSeq < MaxQuotaPosts
       /\ \E cookie \in FreshCookies, postData \in [authorEmail : Emails, upVote : {0},
                                                     downVote : {0}] :
             CreatePostCount(1, cookie, postData)
    \/ CreatePostFindMember(1)
    \/ CreatePostInsert(1)
    \/ CreatePostDecrement(1)
    \/ Close(1)

SpecQuota == InitQuota /\ [][NextQuota]_vars

\* the tier of the author's user document, "" when there is none
TierOf(email) ==
    LET i == FindUserBy(users, "email", email)
    IN  IF i = 0 THEN "" ELSE users[i].memberShip

\* more posts than the tier's ceiling: above 5 for a non-member, above 10 for
\* a member
OverCeiling(tier, n) == (tier = "non-member" /\ n > 5) \/ (tier = "member" /\ n > 10)

\* C4: when the handler of an author with a user document decides, it
\* rejects with the quota outcome exactly when the author's stored posts are
\* more than 5 (non-member) or more than 10 (member); a post is inserted, and
\* postLimit changed, only for a creation that was not rejected
C4_QuotaCeiling ==
    [][\A r \in Slots :
          /\ ( /\ req[r].route = "POST /posts" /\ req[r].pc = "findMember"
               /\ req'[r].pc # "findMember"
               /\ TierOf(req[r].decoded.email) # "" )
             => LET n == CountPosts(posts, req[r].decoded.email)
                    rejected == /\ req'[r].pc = "done" /\ req'[r].status = 403
                                /\ req'[r].message = "Post limit exceeded"
                IN  /\ rejected <=> OverCeiling(TierOf(req[r].decoded.email), n)
                    /\ ~rejected => req'[r].pc = "insert"
                    /\ posts' = posts /\ users' = users
          /\ ( /\ req[r].route = "POST /posts" /\ req'[r] # req[r]
               /\ posts' # posts \/ users' # users )
             => /\ req[r].pc \in {"insert", "decrement"}
                /\ ~OverCeiling(TierOf(req[r].decoded.email), req[r].postCount)
                /\ req[r].postCount
                     = CountPosts(posts, req[r].decoded.email)
                         - (IF req[r].pc = "decrement" THEN 1 ELSE 0)
      ]_vars

\* a member with 11 stored posts has been rejected on the 12th attempt, the
\* postLimit still at what the 11 creations left
C4_Witness ==
    /\ req[1].route = "POST /posts" /\ req[1].pc = "done"
    /\ req[1].status = 403 /\ req[1].message = "Post limit exceeded"
    /\ TierOf(req[1].decoded.email) = "member"
    /\ CountPosts(posts, req[1].decoded.email) = 11
    /\ users[1].postLimit = 5 - 11

-----------------------------------------------------------------------------
(* POST /users *)

\* updatedUserDoc: {$set: {lastSignIn: new Date().toISOString(),
\* lastSignInIp: req.ip}} applied to a document
updatedUserDocWhole(doc, userData, t, ip) ==
    [userData EXCEPT !.lastSignIn = t, !.lastSignInIp = ip]
updatedUserDoc(doc, userData, t, ip) ==
    [doc EXCEPT !.lastSignIn = t, !.lastSignInIp = ip]

\* newUserData: {...userData, lastSignInIp: req.ip}
newUserData(userData, ip) == [userData EXCEPT !.lastSignInIp = ip]

\* !emailExists && usernameExists
UsernameTakenNever(emailExists, usernameExists) == FALSE
UsernameTaken(emailExists, usernameExists) == ~emailExists /\ usernameExists

\* the request arrives: userCollection.findOne({email: userData.email})
RegisterFindEmail(r, userData, ip) ==
    /\ Arrive(r)
    /\ SetReq(r, [route |-> "POST /users", pc |-> "findUsername", status |-> 0,
                  message |-> "", userData |-> userData, ip |-> ip,
                  emailExists |-> FindUserBy(users, "email", userData.email) # 0])
    /\ UNCHANGED <<stores, now, voted, jar>>

\* userCollection.findOne({username: userData.username}) and the branch on
\* the two results
RegisterFindUsername(r) ==
    /\ req[r].route = "POST /users" /\ req[r].pc = "findUsername"
    /\ LET q == req[r]
           usernameExists == FindUserBy(users, "username", q.userData.username) # 0
       IN  SetReq(r, IF UsernameTaken(q.emailExists, usernameExists)
                     THEN Respond(q, 200, "Username already exists")
                     ELSE IF q.emailExists
                     THEN [q EXCEPT !.pc = "update"]
                     ELSE [q EXCEPT !.pc = "insert"])
    /\ UNCHANGED <<stores, now, voted, jar, overlapped>>

\* the same step in src/index.js: if (usernameExists) return 409
UsernameTakenIndexJs(emailExists, usernameExists) == usernameExists

RegisterFindUsernameIndexJs(r) ==
    /\ req[r].route = "POST /users" /\ req[r].pc = "findUsername"
    /\ LET q == req[r]
           usernameExists == FindUserBy(users, "username", q.userData.username) # 0
       IN  SetReq(r, IF UsernameTakenIndexJs(q.emailExists, usernameExists)
                     THEN Respond(q, 409, "Username already exists")
                     ELSE IF q.emailExists
                     THEN [q EXCEPT !.pc = "update"]
                     ELSE [q EXCEPT !.pc = "insert"])
    /\ UNCHANGED <<stores, now, voted, jar, overlapped>>

\* userCollection.updateOne({email: userData.email}, updatedUserDoc)
RegisterUpdate(r) ==
    /\ req[r].route = "POST /users" /\ req[r].pc = "update"
    /\ LET q == req[r]
           i == FindUserBy(users, "email", q.userData.email)
       IN  users' = IF i = 0 THEN users
                    ELSE [users EXCEPT ![i] = updatedUserDoc(@, q.userData, now, q.ip)]
    /\ SetReq(r, Respond(req[r], 200, "Email already exists"))
    /\ UNCHANGED <<posts, postSeq, comments, reports, reportSeq, payments, now, voted, jar, overlapped>>

\* userCollection.insertOne(newUserData)
RegisterInsert(r) ==
    /\ req[r].route = "POST /users" /\ req[r].pc = "insert"
    /\ users' = Append(users, newUserData(req[r].userData, req[r].ip))
    /\ SetReq(r, Respond(req[r], 201, "User saved successfully"))
    /\ UNCHANGED <<posts, postSeq, comments, reports, reportSeq, payments, now, voted, jar, overlapped>>

\* the POST /users handlers that may yet insert
Registering ==
    Cardinality({r \in Slots : /\ req[r].route = "POST /users"
                               /\ \/ req[r].pc = "insert"
                                  \/ req[r].pc = "findUsername" /\ ~req[r].emailExists})

\* what a client may send as its registration
RegBodies == {User(email, username, "user", "non-member") :
                 email \in Emails, username \in Usernames}

-----------------------------------------------------------------------------
(* Registration and sign-in, two requests at a time, on an empty user      *)
(* collection                                                              *)

InitUsers == InitStores(<<>>)

NextUsers ==
    \E r \in Slots :
        \/ \E userData \in RegBodies, ip \in Ips :
              /\ \/ FindUserBy(users, "email", userData.email) # 0
                 \/ Len(users) + Registering < MaxUsers
              /\ RegisterFindEmail(r, userData, ip)
        \/ RegisterFindUsername(r)
        \/ RegisterUpdate(r)
        \/ RegisterInsert(r)
        \/ Close(r)

SpecUsers == InitUsers /\ [][NextUsers]_vars

\* the same requests served by the handler of src/index.js
NextUsersIndexJs ==
    \E r \in Slots :
        \/ \E userData \in RegBodies, ip \in Ips :
              /\ \/ FindUserBy(users, "email", userData.email) # 0
                 \/ Len(users) + Registering < MaxUsers
              /\ RegisterFindEmail(r, userData, ip)
        \/ RegisterFindUsernameIndexJs(r)
        \/ RegisterUpdate(r)
        \/ RegisterInsert(r)
        \/ Close(r)

SpecUsersIndexJs == InitUsers /\ [][NextUsersIndexJs]_vars

\* the user documents that carry an email
WithEmail(us, email) == {i \in 1..Len(us) : us[i].email = email}

\* a user document without the two fields a sign-in sets
SignInFrame(doc) == [doc EXCEPT !.lastSignIn = 0, !.lastSignInIp = ""]

\* C8: a POST /users handler that found a document with the submitted email
\* inserts nothing and changes nothing but lastSignIn and lastSignInIp, and
\* those only in a document with that email, so the number of documents with
\* the email stays what it was
C8_SignInTouchesOnlyLastSignIn ==
    [][\A r \in Slots :
          ( /\ req'[r].route = "POST /users"
            /\ req'[r].emailExists
            /\ req'[r] # req[r] )
          => /\ Len(users') = Len(users)
             /\ \A i \in 1..Len(users) :
                   /\ SignInFrame(users'[i]) = SignInFrame(users[i])
                   /\ users'[i] # users[i] => users[i].email = req'[r].userData.email
             /\ Cardinality(WithEmail(users', req'[r].userData.email))
                  = Cardinality(WithEmail(users, req'[r].userData.email))
             /\ req'[r].pc = "done" =>
                   /\ req'[r].message \in {"Email already exists", "Username already exists"}
                   /\ req'[r].message = "Email already exists" =>
                         \E i \in WithEmail(users', req'[r].userData.email) :
                             /\ users'[i].lastSignIn = now
                             /\ users'[i].lastSignInIp = req'[r].ip
      ]_vars

\* a sign-in from another address under another username has been answered:
\* the one document of the email has the new lastSignIn and address and its
\* old username
C8_Witness ==
    \E r \in Slots :
        /\ req[r].route = "POST /users" /\ req[r].pc = "done"
        /\ req[r].message = "Email already exists"
        /\ Cardinality(WithEmail(users, req[r].userData.email)) = 1
        /\ \E i \in WithEmail(users, req[r].userData.email) :
              /\ users[i].lastSignIn = now
              /\ users[i].lastSignIn # req[r].userData.lastSignIn
              /\ users[i].lastSignInIp = req[r].ip
              /\ users[i].lastSignInIp = "ip2"
              /\ users[i].username # req[r].userData.username

\* C9 as stated: a POST /users whose username a stored document holds is
\* rejected, whether or not its email has a document
C9_TakenUsernameAlwaysRejected ==
    [][\A r \in Slots :
          ( /\ req[r].route = "POST /users" /\ req[r].pc = "findUsername"
            /\ req'[r].pc # "findUsername"
            /\ FindUserBy(users, "username", req[r].userData.username) # 0 )
          => /\ req'[r].pc = "done"
             /\ req'[r].message = "Username already exists"
             /\ users' = users
      ]_vars

\* C9 amended: a POST /users whose username a stored document holds, and
\* whose email the handler found no document for, is rejected: it is answered
\* with the username error and no document is inserted or updated
C9_TakenUsernameRejectedForNewEmail ==
    [][\A r \in Slots :
          /\ ( /\ req[r].route = "POST /users" /\ req[r].pc = "findUsername"
               /\ req'[r].pc # "findUsername"
               /\ ~req[r].emailExists
               /\ FindUserBy(users, "username", req[r].userData.username) # 0 )
             => /\ req'[r].pc = "done"
                /\ req'[r].message = "Username already exists"
                /\ users' = users
          /\ ( /\ req'[r].route = "POST /users"
               /\ req'[r].message = "Username already exists"
               /\ req'[r] # req[r] )
             => users' = users
      ]_vars

\* a registration under a new email and a taken username has been rejected
C9_Witness ==
    \E r \in Slots :
        /\ req[r].route = "POST /users" /\ req[r].pc = "done"
        /\ req[r].message = "Username already exists"
        /\ ~req[r].emailExists
        /\ WithEmail(users, req[r].userData.email) = {}
        /\ FindUserBy(users, "username", req[r].userData.username) # 0

\* C10: no two user documents share an email, and no two share a username
C10_EmailAndUsernameUnique ==
    \A i, j \in 1..Len(users) :
        i # j => /\ users[i].email # users[j].email
                 /\ users[i].username # users[j].username

-----------------------------------------------------------------------------
(* POST /reports *)

\* reportsCollection.findOne({commentId}): is there a report of the comment
existingCommentReportOpenOnly(rs, commentId) ==
    \E id \in DOMAIN rs : rs[id].commentId = commentId /\ rs[id].status # "resolved"
existingCommentReportNever(rs, commentId) == FALSE
existingCommentReport(rs, commentId) ==
    \E id \in DOMAIN rs : rs[id].commentId = commentId

\* the request arrives: reportsCollection.findOne({commentId}) and the check
\* on its result (reportsData is an object, so !reportsData is false)
ReportFind(r, reportsData) ==
    /\ Arrive(r)
    /\ LET q == [route |-> "POST /reports", pc |-> "insert", status |-> 0,
                 message |-> "", reportsData |-> reportsData]
       IN  SetReq(r, IF existingCommentReport(reports, reportsData.commentId)
                     THEN Respond(q, 200, "Report allready have on this comment")
                     ELSE q)
    /\ UNCHANGED <<stores, now, voted, jar>>

\* reportsCollection.insertOne(reportsData)
ReportInsert(r) ==
    /\ req[r].route = "POST /reports" /\ req[r].pc = "insert"
    /\ reports' = InsertDoc(reports, reportSeq + 1, req[r].reportsData)
    /\ reportSeq' = reportSeq + 1
    /\ SetReq(r, Respond(req[r], 200, "insertedId"))
    /\ UNCHANGED <<users, posts, postSeq, comments, payments, now, voted, jar, overlapped>>

\* the POST /reports handlers that have yet to insert
Reporting ==
    Cardinality({r \in Slots : req[r].route = "POST /reports" /\ req[r].pc = "insert"})

\* what a client may send as a report: the comment, and any other field,
\* a status among them
ReportBodies == [commentId : CommentIds, status : {"open", "resolved"}]

-----------------------------------------------------------------------------
(* Report submissions, two at a time                                       *)

NextReports ==
    \E r \in Slots :
        \/ \E reportsData \in ReportBodies :
              /\ \/ existingCommentReport(reports, reportsData.commentId)
                 \/ reportSeq + Reporting < MaxReports
              /\ ReportFind(r, reportsData)
        \/ ReportInsert(r)
        \/ Close(r)

SpecReports == InitStores(<<>>) /\ [][NextReports]_vars

\* the reports that reference a comment
ReportsOf(rs, commentId) == {id \in DOMAIN rs : rs[id].commentId = commentId}

\* C6: a POST /reports that finds a report of its comment stored, open or
\* resolved, is answered 200 with the duplicate notice and leaves the report
\* collection as it is; one that finds none goes on to insert exactly one
\* report of that comment
C6_DuplicateReportNotInserted ==
    [][\A r \in Slots :
          /\ ( req[r].pc = "idle" /\ req'[r].route = "POST /reports" )
             => /\ reports' = reports
                /\ IF ReportsOf(reports, req'[r].reportsData.commentId) # {}
                   THEN /\ req'[r].pc = "done"
                        /\ req'[r].status = 200
                        /\ req'[r].message = "Report allready have on this comment"
                   ELSE req'[r].pc = "insert"
          /\ ( req[r].route = "POST /reports" /\ req[r].pc = "insert"
               /\ req'[r] # req[r] )
             => /\ req'[r].pc = "done" /\ req'[r].status = 200
                /\ \E id \in DOMAIN reports' \ DOMAIN reports :
                      /\ DOMAIN reports' = DOMAIN reports \cup {id}
                      /\ reports'[id].commentId = req[r].reportsData.commentId
                /\ \A id \in DOMAIN reports : reports'[id] = reports[id]
          /\ ( req'[r].route = "POST /reports"
               /\ req'[r].message = "Report allready have on this comment" )
             => ( req'[r] # req[r] => reports' = reports )
      ]_vars

\* a second report of a comment whose stored report is resolved has been
\* answered with the duplicate notice, the comment still with its one report
C6_Witness ==
    \E r \in Slots :
        /\ req[r].route = "POST /reports" /\ req[r].pc = "done"
        /\ req[r].message = "Report allready have on this comment"
        /\ req[r].reportsData.status = "open"
        /\ Cardinality(ReportsOf(reports, req[r].reportsData.commentId)) = 1
        /\ \A id \in ReportsOf(reports, req[r].reportsData.commentId) :
              reports[id].status = "resolved"

\* C7 as stated: in every reachable state every comment has at most one
\* report
C7_OneReportPerComment ==
    \A c \in CommentIds : Cardinality(ReportsOf(reports, c)) <= 1

\* C7 amended: as long as no handler has started while another was in
\* progress, every comment has at most one report
C7_OneReportPerCommentInTurn ==
    ~overlapped =>
        \A id1, id2 \in DOMAIN reports :
            reports[id1].commentId = reports[id2].commentId => id1 = id2

\* the requests came one after the other, every comment is reported once and
\* a further report of one of them has been turned away
C7_Witness ==
    /\ ~overlapped
    /\ \A c \in CommentIds : Cardinality(ReportsOf(reports, c)) = 1
    /\ \E r \in Slots :
          /\ req[r].route = "POST /reports" /\ req[r].pc = "done"
          /\ req[r].message = "Report allready have on this comment"

-----------------------------------------------------------------------------
(* The admin check and the routes behind it *)

AdminRoutes == {"GET /reports", "PATCH /reports/action", "GET /admin/users",
                "PATCH /makeAdmin/:id"}

\* !user || user.role !== 'admin', on the document findOne returned (position
\* 0: none)
NotAdminOnlyIfMissing(us, i) == i = 0
NotAdmin(us, i) == i = 0 \/ us[i].role # "admin"

\* verifyAdmin, on a request that has passed verifyJWT: the answer, or
\* admitted when next() is called
verifyAdmin(q, us) ==
    IF q.decoded.email = NoEmail
    THEN Respond(q, 401, "Unauthorized access")
    ELSE IF NotAdmin(us, FindUserBy(us, "email", q.decoded.email))
    THEN Respond(q, 403, "Admin access only")
    ELSE [q EXCEPT !.admitted = TRUE]

\* a request of an admin route as it leaves verifyJWT and verifyAdmin
AdminGated(route, cookie, params) ==
    LET q == Gated(NewReq(route) @@ params @@ [admitted |-> FALSE, data |-> {}],
                   cookie, now)
    IN  IF ~Passed(q) THEN q ELSE verifyAdmin(q, users)

\* GET /reports arrives: verifyJWT, verifyAdmin with its
\* userCollection.findOne({email})
ListReportsCheck(r, cookie) ==
    /\ Arrive(r)
    /\ SetReq(r, [AdminGated("GET /reports", cookie, <<>>) EXCEPT
                     !.pc = IF @ = "done" THEN @ ELSE "find"])
    /\ UNCHANGED <<stores, now, voted, jar>>

\* reportsCollection.find().sort({createdAt: -1}).toArray(); res.send(result)
ListReportsFind(r) ==
    /\ req[r].route = "GET /reports" /\ req[r].pc = "find"
    /\ SetReq(r, Respond([req[r] EXCEPT !.data = DOMAIN reports], 200, "reports"))
    /\ UNCHANGED <<stores, now, voted, jar, overlapped>>

\* the action tags with a branch in the handler
Actions == {"ignore", "warn", "delete-comment", "block"}

\* PATCH /reports/action arrives: verifyJWT, verifyAdmin with its findOne,
\* then the handler up to the storage call of its branch; an action tag
\* without a branch goes straight to res.send({modifiedCount: 1})
ReportActionCheckStrict(r, cookie, body) ==
    /\ Arrive(r)
    /\ LET q == AdminGated("PATCH /reports/action", cookie, [body |-> body])
       IN  SetReq(r, IF q.pc = "done" THEN q
                     ELSE IF body.action \in Actions
                     THEN [q EXCEPT !.pc = body.action]
                     ELSE Respond(q, 400, "Unknown action"))
    /\ UNCHANGED <<stores, now, voted, jar>>
ReportActionCheck(r, cookie, body) ==
    /\ Arrive(r)
    /\ LET q == AdminGated("PATCH /reports/action", cookie, [body |-> body])
       IN  SetReq(r, IF q.pc = "done" THEN q
                     ELSE IF body.action \in Actions
                     THEN [q EXCEPT !.pc = body.action]
                     ELSE Respond(q, 200, "modifiedCount"))
    /\ UNCHANGED <<stores, now, voted, jar>>

\* reportsCollection.updateOne(reportFilter, {$set: {status: 'resolved'}})
ReportActionIgnore(r) ==
    /\ req[r].route = "PATCH /reports/action" /\ req[r].pc = "ignore"
    /\ reports' = [id \in DOMAIN reports |->
                     IF id = req[r].body.reportId
                     THEN [reports[id] EXCEPT !.status = "resolved"]
                     ELSE reports[id]]
    /\ SetReq(r, Respond(req[r], 200, "modifiedCount"))
    /\ UNCHANGED <<users, posts, postSeq, comments, reportSeq, payments, now, voted, jar, overlapped>>

\* userCollection.updateOne({email: userEmail}, {$set: {warning: true}})
ReportActionWarnResolves(r) ==
    /\ req[r].route = "PATCH /reports/action" /\ req[r].pc = "warn"
    /\ LET i == FindUserBy(users, "email", req[r].body.userEmail)
       IN  users' = IF i = 0 THEN users ELSE [users EXCEPT ![i].warning = TRUE]
    /\ reports' = [id \in DOMAIN reports |->
                     IF id = req[r].body.reportId
                     THEN [reports[id] EXCEPT !.status = "resolved"]
                     ELSE reports[id]]
    /\ SetReq(r, Respond(req[r], 200, "modifiedCount"))
    /\ UNCHANGED <<posts, postSeq, comments, reportSeq, payments, now, voted, jar, overlapped>>
ReportActionWarn(r) ==
    /\ req[r].route = "PATCH /reports/action" /\ req[r].pc = "warn"
    /\ LET i == FindUserBy(users, "email", req[r].body.userEmail)
       IN  users' = IF i = 0 THEN users ELSE [users EXCEPT ![i].warning = TRUE]
    /\ SetReq(r, Respond(req[r], 200, "modifiedCount"))
    /\ UNCHANGED <<posts, postSeq, comments, reports, reportSeq, payments, now, voted, jar, overlapped>>

\* commentsCollection.deleteOne({_id: new ObjectId(commentId)})
ReportActionDeleteComment(r) ==
    /\ req[r].route = "PATCH /reports/action" /\ req[r].pc = "delete-comment"
    /\ comments' = comments \ {req[r].body.commentId}
    /\ SetReq(r, [req[r] EXCEPT !.pc = "delete-report"])
    /\ UNCHANGED <<users, posts, postSeq, reports, reportSeq, payments, now, voted, jar, overlapped>>

\* reportsCollection.deleteOne({_id: new ObjectId(reportId)})
ReportActionDeleteReportSkipped(r) ==
    /\ req[r].route = "PATCH /reports/action" /\ req[r].pc = "delete-report"
    /\ SetReq(r, Respond(req[r], 200, "modifiedCount"))
    /\ UNCHANGED <<stores, now, voted, jar, overlapped>>
ReportActionDeleteReport(r) ==
    /\ req[r].route = "PATCH /reports/action" /\ req[r].pc = "delete-report"
    /\ reports' = DeleteDoc(reports, req[r].body.reportId)
    /\ SetReq(r, Respond(req[r], 200, "modifiedCount"))
    /\ UNCHANGED <<users, posts, postSeq, comments, reportSeq, payments, now, voted, jar, overlapped>>

\* userCollection.updateOne({email: userEmail}, {$set: {isBlocked: true}})
ReportActionBlockAndWarn(r) ==
    /\ req[r].route = "PATCH /reports/action" /\ req[r].pc = "block"
    /\ LET i == FindUserBy(users, "email", req[r].body.userEmail)
       IN  users' = IF i = 0 THEN users
                    ELSE [users EXCEPT ![i].isBlocked = TRUE, ![i].warning = TRUE]
    /\ SetReq(r, Respond(req[r], 200, "modifiedCount"))
    /\ UNCHANGED <<posts, postSeq, comments, reports, reportSeq, payments, now, voted, jar, overlapped>>
ReportActionBlock(r) ==
    /\ req[r].route = "PATCH /reports/action" /\ req[r].pc = "block"
    /\ LET i == FindUserBy(users, "email", req[r].body.userEmail)
       IN  users' = IF i = 0 THEN users ELSE [users EXCEPT ![i].isBlocked = TRUE]
    /\ SetReq(r, Respond(req[r], 200, "modifiedCount"))
    /\ UNCHANGED <<posts, postSeq, comments, reports, reportSeq, payments, now, voted, jar, overlapped>>

\* GET /admin/users arrives: verifyJWT, verifyAdmin with its findOne
SearchUsersCheck(r, cookie, search) ==
    /\ Arrive(r)
    /\ SetReq(r, [AdminGated("GET /admin/users", cookie, [search |-> search]) EXCEPT
                     !.pc = IF @ = "done" THEN @ ELSE "find"])
    /\ UNCHANGED <<stores, now, voted, jar>>

\* {$regex: search, $options: 'i'} on one of the strings of the model: the
\* empty search matches all, a whole username or email matches itself
Matches(string, search) == search = "" \/ string = search

\* userCollection.find({$or: [{username: ...}, {email: ...}]}).toArray()
SearchUsersFind(r) ==
    /\ req[r].route = "GET /admin/users" /\ req[r].pc = "find"
    /\ SetReq(r, Respond([req[r] EXCEPT !.data =
                            {i \in 1..Len(users) :
                                \/ Matches(users[i].username, req[r].search)
                                \/ Matches(users[i].email, req[r].search)}],
                         200, "users"))
    /\ UNCHANGED <<stores, now, voted, jar, overlapped>>

\* PATCH /makeAdmin/:id arrives: verifyJWT, verifyAdmin with its findOne
MakeAdminCheck(r, cookie, id) ==
    /\ Arrive(r)
    /\ SetReq(r, [AdminGated("PATCH /makeAdmin/:id", cookie, [id |-> id]) EXCEPT
                     !.pc = IF @ = "done" THEN @ ELSE "update"])
    /\ UNCHANGED <<stores, now, voted, jar>>

\* userCollection.updateOne({_id: new ObjectId(id)}, {$set: {role: 'admin'}})
MakeAdminUpdate(r) ==
    /\ req[r].route = "PATCH /makeAdmin/:id" /\ req[r].pc = "update"
    /\ users' = IF req[r].id \in 1..Len(users)
                THEN [users EXCEPT ![req[r].id].role = "admin"]
                ELSE users
    /\ SetReq(r, Respond(req[r], 200, "modifiedCount"))
    /\ UNCHANGED <<posts, postSeq, comments, reports, reportSeq, payments, now, voted, jar, overlapped>>

\* what an admin client may send to PATCH /reports/action
ActionBodies == [action : Actions \cup {"mute"}, reportId : {1}, userEmail : {"a@x"},
                 commentId : {"c1"}]

-----------------------------------------------------------------------------
(* The admin routes, two requests at a time, on a database with an admin,  *)
(* two comments and a report of the first; ann is registered or not        *)

InitAdmin ==
    /\ users \in {<<Bob("admin")>>, <<Bob("admin"), Ann("non-member")>>}
    /\ posts = <<>> /\ postSeq = 0
    /\ comments = {"c1", "c2"}
    /\ reports = <<[commentId |-> "c1", status |-> "open"]>> /\ reportSeq = 1
    /\ payments = <<>>
    /\ req = NoRequests
    /\ now = StartTime
    /\ overlapped = FALSE
    /\ voted = NoVotes
    /\ jar = {}

\* no cookie, or a fresh token of the server
AdminCookies == {NoToken} \cup FreshCookies

NextAdmin ==
    \E r \in Slots :
        \/ \E cookie \in AdminCookies : ListReportsCheck(r, cookie)
        \/ ListReportsFind(r)
        \/ \E cookie \in AdminCookies, body \in ActionBodies :
              ReportActionCheck(r, cookie, body)
        \/ ReportActionIgnore(r)
        \/ ReportActionWarn(r)
        \/ ReportActionDeleteComment(r)
        \/ ReportActionDeleteReport(r)
        \/ ReportActionBlock(r)
        \/ \E cookie \in AdminCookies, search \in {"", "ann"} :
              SearchUsersCheck(r, cookie, search)
        \/ SearchUsersFind(r)
        \/ \E cookie \in AdminCookies, id \in {2} : MakeAdminCheck(r, cookie, id)
        \/ MakeAdminUpdate(r)
        \/ Close(r)

SpecAdmin == InitAdmin /\ [][NextAdmin]_vars

\* the first user document with the email has role admin
IsAdminRecord(us, email) ==
    \E i \in 1..Len(us) :
        /\ us[i].email = email /\ us[i].role = "admin"
        /\ \A j \in 1..(i - 1) : us[j].email # email

\* C2: a request of an admin route without a token is answered 401, one whose
\* token verifies and names an email that has no user record, or a record
\* whose role is not admin, is answered 403; the handler body is entered only
\* when the token verified and the user record of its email had role admin
\* in the admin check's read, and every handler step, every 200 answer and
\* every change of a store belongs to a request so admitted
C2_AdminOnly ==
    [][/\ \A r \in Slots :
            /\ (req[r].pc = "idle" /\ req'[r].route \in AdminRoutes) =>
                  LET q == req'[r]
                      c == q.cookie
                      verified == c.present /\ c.signed /\ now < c.iat + 7
                  IN  /\ ~c.present =>
                             q.pc = "done" /\ q.status = 401 /\ ~q.admitted
                      /\ (verified /\ c.email # NoEmail
                             /\ ~IsAdminRecord(users, c.email)) =>
                             q.pc = "done" /\ q.status = 403 /\ ~q.admitted
                      /\ q.admitted => verified /\ IsAdminRecord(users, c.email)
            /\ (req[r].route \in AdminRoutes /\ req'[r] # req[r]
                   /\ req[r].pc # "done") => req[r].admitted
            /\ (req'[r].route \in AdminRoutes
                   /\ (req'[r].status = 200 \/ req'[r].data # {})) => req'[r].admitted
       /\ stores' # stores =>
             \E r \in Slots : /\ req[r].route \in AdminRoutes /\ req[r].admitted
                              /\ req'[r] # req[r]
      ]_vars

\* ann, registered without the admin role, is answered 403 while the request
\* of an admin has blocked her
C2_Witness ==
    \E r1, r2 \in Slots :
        /\ req[r1].route \in AdminRoutes /\ req[r1].pc = "done"
        /\ req[r1].status = 403 /\ req[r1].cookie.present
        /\ req[r1].cookie.email = "a@x"
        /\ \E i \in 1..Len(users) : users[i].email = "a@x" /\ users[i].role = "user"
                                    /\ users[i].isBlocked
        /\ req[r2].route = "PATCH /reports/action" /\ req[r2].pc = "done"
        /\ req[r2].admitted /\ req[r2].body.action = "block"

-----------------------------------------------------------------------------
(* Every route behind verifyJWT, one request at a time, with every cookie a *)
(* client can send: none, forged, expired, fresh                            *)

GatedRoutes == {"POST /posts", "DELETE /posts/:id", "GET /posts/user/:email/count",
                "GET /posts/user/:email"} \cup AdminRoutes

NextGate ==
    \/ /\ postSeq < MaxPosts
       /\ \E cookie \in Cookies, postData \in [authorEmail : {"a@x"}, upVote : {0},
                                               downVote : {0}] :
             CreatePostCount(1, cookie, postData)
    \/ CreatePostFindMember(1)
    \/ CreatePostInsert(1)
    \/ CreatePostDecrement(1)
    \/ \E cookie \in Cookies, id \in PostIds :
          DeletePostFind(1, cookie, id, [authorEmail |-> "a@x"])
    \/ DeletePostDelete(1)
    \/ DeletePostIncrement(1)
    \/ \E cookie \in Cookies : OwnCount(1, cookie, "a@x")
    \/ \E cookie \in Cookies : OwnPosts(1, cookie, "a@x", 0)
    \/ \E cookie \in Cookies : ListReportsCheck(1, cookie)
    \/ ListReportsFind(1)
    \/ \E cookie \in Cookies, body \in ActionBodies : ReportActionCheck(1, cookie, body)
    \/ ReportActionIgnore(1)
    \/ ReportActionWarn(1)
    \/ ReportActionDeleteComment(1)
    \/ ReportActionDeleteReport(1)
    \/ ReportActionBlock(1)
    \/ \E cookie \in Cookies : SearchUsersCheck(1, cookie, "")
    \/ SearchUsersFind(1)
    \/ \E cookie \in Cookies : MakeAdminCheck(1, cookie, 2)
    \/ MakeAdminUpdate(1)
    \/ Close(1)

SpecGate == InitAdmin /\ [][NextGate]_vars

\* C3: a request of a gated route that carries no jwtToken cookie is answered
\* 401, one whose token is forged or past its seven days is answered 403, and
\* in both cases next() is not called, the request is over and no store
\* changes; a token that verifies has its claim attached as the identity and
\* next() called once, and neither changes while the request lasts
C3_Gate ==
    [][\A r \in Slots :
          /\ (req[r].pc = "idle" /\ req'[r].route \in GatedRoutes) =>
                LET q == req'[r]
                    c == q.cookie
                IN  /\ stores' = stores
                    /\ ~c.present =>
                           /\ q.pc = "done" /\ q.status = 401
                           /\ q.message = "Unauthorized access"
                           /\ q.nexts = 0 /\ q.decoded.email = NoEmail
                    /\ (c.present /\ ~(c.signed /\ now < c.iat + 7)) =>
                           /\ q.pc = "done" /\ q.status = 403
                           /\ q.message = "Forbidden"
                           /\ q.nexts = 0 /\ q.decoded.email = NoEmail
                    /\ (c.present /\ c.signed /\ now < c.iat + 7) =>
                           q.nexts = 1 /\ q.decoded.email = c.email
          /\ (req[r].route \in GatedRoutes /\ req'[r].route \in GatedRoutes) =>
                /\ req'[r].nexts = req[r].nexts
                /\ req'[r].decoded = req[r].decoded
                /\ (req[r].nexts = 0 => req'[r] = req[r])
          /\ (req[r].route \in GatedRoutes /\ req[r].nexts = 0 /\ req'[r] # req[r]) =>
                stores' = stores
      ]_vars

\* an expired token was answered 403 on a database in which the request of
\* a verified token has stored a post
C3_Witness ==
    /\ req[1].route \in GatedRoutes /\ req[1].pc = "done"
    /\ req[1].cookie.present /\ req[1].cookie.signed /\ req[1].cookie.iat = 0
    /\ req[1].status = 403 /\ req[1].nexts = 0
    /\ DOMAIN posts # {}

-----------------------------------------------------------------------------
(* Creation and deletion of posts when ann's postLimit counter starts at 5 *)
(* or at 0 (the registration stores the counter the client sends)          *)

InitLimit ==
    \E limit \in {0, 5} :
        InitStores(<<[Ann("non-member") EXCEPT !.postLimit = limit], Bob("user")>>)

SpecLimit == InitLimit /\ [][NextPosts]_vars

\* the requests of a route that are at a step, for an identity
AtStep(route, pc, email) ==
    Cardinality({r \in Slots : /\ req[r].route = route /\ req[r].pc = pc
                               /\ req[r].decoded.email = email})

\* postLimit of the user plus the user's stored posts, with the counter
\* updates still owed by the requests between their two writes
Balance(us, ps, i) ==
    us[i].postLimit + CountPosts(ps, us[i].email)

Owed(i) ==
    AtStep("DELETE /posts/:id", "increment", users[i].email)
        - AtStep("POST /posts", "decrement", users[i].email)

\* the users are as before but for postLimit of the document at i, moved by d
OnlyPostLimitMoved(i, d) ==
    /\ i \in 1..Len(users)
    /\ users' = [users EXCEPT ![i].postLimit = @ + d]

\* C11: the step in which POST /posts answers 200 lowers postLimit of the
\* author's user document by exactly 1 and the step in which DELETE
\* /posts/:id answers 200 raises postLimit of the deleting user's document by
\* exactly 1, nothing else in the users changing; while no requests have
\* overlapped, postLimit plus the number of the user's stored posts (with
\* the update a request between its two writes still owes) stays what it
\* was, so a creation followed by a deletion restores postLimit; and the
\* handler goes on to insert exactly when the count it read is within the
\* ceiling of the tier, whatever postLimit is
C11_PostLimitCounter ==
    [][/\ \A r \in Slots :
            /\ (req[r].route = "POST /posts" /\ req[r].pc # "done"
                   /\ req'[r].pc = "done" /\ req'[r].status = 200) =>
                  \E i \in 1..Len(users) :
                      /\ users[i].email = req[r].postData.authorEmail
                      /\ OnlyPostLimitMoved(i, -1)
            /\ (req[r].route = "DELETE /posts/:id" /\ req[r].pc # "done"
                   /\ req'[r].pc = "done" /\ req'[r].status = 200) =>
                  \E i \in 1..Len(users) :
                      /\ users[i].email = req[r].decoded.email
                      /\ OnlyPostLimitMoved(i, 1)
            /\ (req[r].route = "POST /posts" /\ req[r].pc = "findMember"
                   /\ req'[r] # req[r]) =>
                  (req'[r].pc = "insert" <=>
                      \E i \in 1..Len(users) :
                          /\ users[i].email = req[r].decoded.email
                          /\ ~(users[i].memberShip = "non-member" /\ req[r].postCount > 5)
                          /\ ~(users[i].memberShip = "member" /\ req[r].postCount > 10))
       /\ ~overlapped' =>
             \A i \in 1..Len(users) :
                 Balance(users', posts', i) + Owed(i)' = Balance(users, posts, i) + Owed(i)
      ]_vars

\* with no request ever overlapping another, ann, whose postLimit was 0,
\* has created a post and deleted it: postLimit is 0 again and the store is
\* empty
C11_Witness ==
    /\ ~overlapped
    /\ postSeq = 1 /\ DOMAIN posts = {}
    /\ users[1].postLimit = 0
    /\ \E r \in Slots : /\ req[r].route = "DELETE /posts/:id" /\ req[r].pc = "done"
                        /\ req[r].status = 200 /\ req[r].decoded.email = "a@x"

-----------------------------------------------------------------------------
(* POST /membership *)

\* $addToSet on an array field: appended unless already an element
addToSetPush(array, v) == Append(array, v)
addToSet(array, v) ==
    IF \E k \in 1..Len(array) : array[k] = v THEN array ELSE Append(array, v)

\* updatedDoc applied to a user document: $set memberShip, $inc postLimit,
\* $addToSet badges
MembershipIncrement == 5
membershipUpdatedDoc(doc) ==
    [doc EXCEPT !.memberShip = "member",
                !.postLimit = @ + MembershipIncrement,
                !.badges = addToSet(@, "Gold")]

\* the request arrives: paymentCollection.insertOne(paymentData)
MembershipInsertPayment(r, body) ==
    /\ Arrive(r)
    /\ payments' = Append(payments, body)
    /\ SetReq(r, [route |-> "POST /membership", pc |-> "update", status |-> 0,
                  message |-> "", body |-> body])
    /\ UNCHANGED <<users, posts, postSeq, comments, reports, reportSeq, now, voted, jar>>

\* userCollection.updateOne({email}, updatedDoc); res.send(result)
MembershipUpdate(r) ==
    /\ req[r].route = "POST /membership" /\ req[r].pc = "update"
    /\ LET i == FindUserBy(users, "email", req[r].body.email)
       IN  users' = IF i = 0 THEN users
                    ELSE [users EXCEPT ![i] = membershipUpdatedDoc(@)]
    /\ SetReq(r, Respond(req[r], 200, "insertedId"))
    /\ UNCHANGED <<posts, postSeq, comments, reports, reportSeq, payments, now, voted, jar, overlapped>>

-----------------------------------------------------------------------------
(* Membership purchases of ann and bob, two requests at a time, while the  *)
(* admin warns, blocks and promotes ann                                    *)

InitMembership ==
    /\ InitStores(<<Ann("non-member"), Bob("admin")>>)

\* the fresh token of bob, the admin
BobCookie == [present |-> TRUE, email |-> "b@x", iat |-> StartTime, signed |-> TRUE]

NextMembership ==
    \E r \in Slots :
        \/ /\ Len(payments) < MaxPayments
           /\ \E body \in [email : Emails] : MembershipInsertPayment(r, body)
        \/ MembershipUpdate(r)
        \/ \E body \in {b \in ActionBodies : b.action \in {"warn", "block"}} :
              ReportActionCheck(r, BobCookie, body)
        \/ ReportActionWarn(r)
        \/ ReportActionBlock(r)
        \/ MakeAdminCheck(r, BobCookie, 1)
        \/ MakeAdminUpdate(r)
        \/ Close(r)

SpecMembership == InitMembership /\ [][NextMembership]_vars

\* the purchases of an email whose user update is done
Purchases(email) ==
    Cardinality({k \in 1..Len(payments) : payments[k].email = email})
        - Cardinality({r \in Slots : /\ req[r].route = "POST /membership"
                                     /\ req[r].pc = "update"
                                     /\ req[r].body.email = email})

\* how often a badge occurs in the badges of a user document
Occurrences(badges, v) == Cardinality({k \in 1..Len(badges) : badges[k] = v})

\* with n >= 1 purchases of a user done, the user's tier is member, "Gold"
\* occurs exactly once in the badges and postLimit is 5 * n above the 5 of
\* the start; with none done, postLimit is 5
MembershipState ==
    \A i \in 1..Len(users) :
        LET n == Purchases(users[i].email)
        IN  /\ users[i].postLimit = 5 + 5 * n
            /\ n >= 1 => /\ users[i].memberShip = "member"
                         /\ Occurrences(users[i].badges, "Gold") = 1

\* the user update of a purchase leaves role, isBlocked, warning and every
\* other user document as they are, and no step of any request makes a
\* member's tier anything but member
MembershipSteps ==
    /\ \A r \in Slots :
          (req[r].route = "POST /membership" /\ req'[r] # req[r]) =>
              /\ Len(users') = Len(users)
              /\ \A i \in 1..Len(users) :
                    /\ users'[i].role = users[i].role
                    /\ users'[i].isBlocked = users[i].isBlocked
                    /\ users'[i].warning = users[i].warning
                    /\ users[i].email # req[r].body.email => users'[i] = users[i]
    /\ \A i \in 1..Len(users) :
          users[i].memberShip = "member" =>
              i <= Len(users') /\ users'[i].memberShip = "member"

\* C12: after n >= 1 completed POST /membership purchases of an existing
\* user the tier is member, the badges hold "Gold" exactly once and
\* postLimit has grown by 5 * n; a purchase changes neither role, isBlocked
\* nor warning; and no step moves a member to another tier
C12_Membership == []MembershipState /\ [][MembershipSteps]_vars

\* ann, warned, blocked and promoted by the admin meanwhile, has bought the
\* membership twice
C12_Witness ==
    /\ Purchases("a@x") = 2
    /\ users[1].email = "a@x" /\ users[1].memberShip = "member"
    /\ users[1].postLimit = 15
    /\ users[1].badges = <<"Bronze", "Gold">>
    /\ users[1].warning /\ users[1].isBlocked /\ users[1].role = "admin"

-----------------------------------------------------------------------------
(* The admin's actions on reports, two requests at a time, while clients   *)
(* report the second comment                                               *)

\* what the admin sends to PATCH /reports/action: ignore and delete-comment
\* with every report id, delete-comment with every comment id as well (the
\* other branches read neither reportId nor commentId)
ActedBodies ==
    {b \in [action : Actions \cup {"mute"}, reportId : 1..MaxActedReports,
            userEmail : {"a@x"}, commentId : {"c1", "c2"}] :
        /\ b.action # "delete-comment" => b.commentId = "c1"
        /\ b.action \notin {"ignore", "delete-comment"} => b.reportId = 1}

NextActions ==
    \E r \in Slots :
        \/ \E reportsData \in [commentId : {"c2"}, status : {"open"}] :
              /\ \/ existingCommentReport(reports, reportsData.commentId)
                 \/ reportSeq + Reporting < MaxActedReports
              /\ ReportFind(r, reportsData)
        \/ ReportInsert(r)
        \/ \E body \in ActedBodies : ReportActionCheck(r, BobCookie, body)
        \/ ReportActionIgnore(r)
        \/ ReportActionWarn(r)
        \/ ReportActionDeleteComment(r)
        \/ ReportActionDeleteReport(r)
        \/ ReportActionBlock(r)
        \/ Close(r)

\* ann is registered
InitActions == InitAdmin /\ Len(users) = 2

SpecActions == InitActions /\ [][NextActions]_vars

\* the request in the slot is a PATCH /reports/action that takes a step
ActionStep(r) ==
    /\ req[r].route = "PATCH /reports/action" /\ req[r].pc # "done"
    /\ req'[r] # req[r]

\* C13: a stored report leaves the store only in the report deletion of an
\* admitted delete-comment action that names it, and its document changes
\* only in the update of an admitted ignore action that names it, which
\* sets status to resolved; a resolved report that stays stored stays
\* resolved; and the steps of warn, block and unrecognized actions leave the
\* reports as they are
C13_ReportLifecycle ==
    [][/\ \A id \in DOMAIN reports :
            /\ id \notin DOMAIN reports' =>
                  \E r \in Slots :
                      /\ ActionStep(r) /\ req[r].admitted
                      /\ req[r].body.action = "delete-comment"
                      /\ req[r].body.reportId = id
            /\ (id \in DOMAIN reports' /\ reports'[id] # reports[id]) =>
                  /\ \E r \in Slots :
                        /\ ActionStep(r) /\ req[r].admitted
                        /\ req[r].body.action = "ignore"
                        /\ req[r].body.reportId = id
                  /\ reports'[id] = [reports[id] EXCEPT !.status = "resolved"]
            /\ (id \in DOMAIN reports' /\ reports[id].status = "resolved") =>
                  reports'[id].status = "resolved"
       /\ \A r \in Slots :
            /\ (ActionStep(r) /\ req[r].body.action \notin {"ignore", "delete-comment"}) =>
                  reports' = reports
            /\ (ActionStep(r) /\ req[r].pc = "ignore"
                   /\ req[r].body.reportId \in DOMAIN reports) =>
                  /\ DOMAIN reports' = DOMAIN reports
                  /\ reports'[req[r].body.reportId].status = "resolved"
            /\ (ActionStep(r) /\ req[r].pc = "delete-report") =>
                  req[r].body.reportId \notin DOMAIN reports'
      ]_vars

\* the first report has been resolved by ignore and the second, submitted
\* by a client, removed by delete-comment
C13_Witness ==
    /\ reportSeq = 2 /\ DOMAIN reports = {1}
    /\ reports[1].status = "resolved"
    /\ \E r \in Slots : /\ req[r].route = "PATCH /reports/action" /\ req[r].pc = "done"
                        /\ req[r].body.action = "delete-comment"
                        /\ req[r].body.reportId = 2

\* C14: the comment deletion of a delete-comment action removes the comment
\* the request names and nothing else, its report deletion removes the
\* report the request names and nothing else, and when the handler then
\* answers, neither the comment nor the report is stored; no user document
\* changes in either step
C14_DeleteCommentRemovesBoth ==
    [][\A r \in Slots :
          /\ (ActionStep(r) /\ req[r].pc = "delete-comment") =>
                /\ comments' = comments \ {req[r].body.commentId}
                /\ reports' = reports /\ users' = users
                /\ req'[r].pc # "done"
          /\ (ActionStep(r) /\ req[r].pc = "delete-report") =>
                /\ DOMAIN reports' = DOMAIN reports \ {req[r].body.reportId}
                /\ \A id \in DOMAIN reports' : reports'[id] = reports[id]
                /\ comments' = comments /\ users' = users
                /\ req'[r].pc = "done" /\ req'[r].status = 200
                /\ req[r].body.commentId \notin comments'
                /\ req[r].body.reportId \notin DOMAIN reports'
      ]_vars

\* delete-comment with the first comment and its report, both stored, has
\* been answered: both are gone, the second comment and its report remain
C14_Witness ==
    /\ comments = {"c2"}
    /\ DOMAIN reports = {2} /\ reports[2].commentId = "c2"
    /\ \E r \in Slots : /\ req[r].route = "PATCH /reports/action" /\ req[r].pc = "done"
                        /\ req[r].body.action = "delete-comment"
                        /\ req[r].body.commentId = "c1" /\ req[r].body.reportId = 1

\* C15: an admitted PATCH /reports/action whose action is none of ignore,
\* warn, delete-comment and block is answered at once, with no store
\* changed, and its answer is the 200 {modifiedCount: 1} that every
\* admitted request of the route gets
C15_UnrecognizedActionNoOp ==
    [][\A r \in Slots :
          /\ (req[r].pc = "idle" /\ req'[r].route = "PATCH /reports/action"
                 /\ req'[r].admitted
                 /\ req'[r].body.action \notin {"ignore", "warn", "delete-comment", "block"}) =>
                /\ stores' = stores
                /\ req'[r].pc = "done"
          /\ (req'[r].route = "PATCH /reports/action" /\ req'[r].admitted
                 /\ req'[r].pc = "done") =>
                req'[r].status = 200 /\ req'[r].message = "modifiedCount"
      ]_vars

\* an unrecognized action and an ignore have both been answered
C15_Witness ==
    \E r1, r2 \in Slots :
        /\ req[r1].route = "PATCH /reports/action" /\ req[r1].pc = "done"
        /\ req[r1].admitted /\ req[r1].body.action = "mute"
        /\ req[r2].route = "PATCH /reports/action" /\ req[r2].pc = "done"
        /\ req[r2].admitted /\ req[r2].body.action = "ignore"
        /\ req[r1].status = req[r2].status /\ req[r1].message = req[r2].message

\* the first user document with the email, if any, is changed as given, and
\* the users are otherwise as before
OnlyFirstWithEmailBecomes(email, Change(_)) ==
    /\ Len(users') = Len(users)
    /\ \A i \in 1..Len(users) :
          users'[i] = IF users[i].email = email
                         /\ \A j \in 1..(i - 1) : users[j].email # email
                      THEN Change(users[i])
                      ELSE users[i]

\* C16: the user update of a warn action sets warning of the user with the
\* given email to true and changes nothing else, that of a block action sets
\* isBlocked of that user to true and changes nothing else; comments and
\* reports stay as they are; and no step of any request turns a warning or
\* isBlocked that is true to false
C16_WarnBlockFlags ==
    [][/\ \A r \in Slots :
            /\ (ActionStep(r) /\ req[r].pc = "warn") =>
                  /\ LET Warned(doc) == [doc EXCEPT !.warning = TRUE]
                     IN  OnlyFirstWithEmailBecomes(req[r].body.userEmail, Warned)
                  /\ comments' = comments /\ reports' = reports
            /\ (ActionStep(r) /\ req[r].pc = "block") =>
                  /\ LET Blocked(doc) == [doc EXCEPT !.isBlocked = TRUE]
                     IN  OnlyFirstWithEmailBecomes(req[r].body.userEmail, Blocked)
                  /\ comments' = comments /\ reports' = reports
       /\ \A i \in 1..Len(users) :
            /\ i <= Len(users')
            /\ users[i].warning => users'[i].warning
            /\ users[i].isBlocked => users'[i].isBlocked
      ]_vars

\* ann has been blocked and not warned, and has bought the membership since
C16_Witness ==
    /\ users[1].email = "a@x" /\ users[1].isBlocked /\ ~users[1].warning
    /\ users[1].memberShip = "member"
    /\ \E r \in Slots : /\ req[r].route = "PATCH /reports/action" /\ req[r].pc = "done"
                        /\ req[r].body.action = "block"

-----------------------------------------------------------------------------
(* PATCH /post/vote/:postId *)

\* updateOne({_id}, {$inc: {[counter]: 1}}): one atomic increment of the
\* stored counter, nothing when no post has the _id
IncVoteBoth(ps, id, counter) ==
    [i \in DOMAIN ps |->
        IF i = id THEN [ps[i] EXCEPT !.upVote = @ + 1, !.downVote = @ + 1] ELSE ps[i]]
IncVote(ps, id, counter) ==
    [i \in DOMAIN ps |-> IF i = id THEN [ps[i] EXCEPT ![counter] = @ + 1] ELSE ps[i]]

\* the vote of the kind is counted when it found the post
CountVote(id, counter) ==
    voted' = IF id \in DOMAIN posts
             THEN [voted EXCEPT ![id][counter] = @ + 1]
             ELSE voted

\* the request arrives: for type 'up' and type 'down' the updateOne and
\* res.send(result); for any other type the handler returns without an
\* answer
Vote(r, postId, type) ==
    /\ Arrive(r)
    /\ LET q == [route |-> "PATCH /post/vote/:postId", pc |-> "update", status |-> 0,
                 message |-> "", postId |-> postId, type |-> type]
       IN  IF type = "up"
           THEN /\ posts' = IncVote(posts, postId, "upVote")
                /\ CountVote(postId, "upVote")
                /\ SetReq(r, Respond(q, 200, "result"))
           ELSE IF type = "down"
           THEN /\ posts' = IncVote(posts, postId, "downVote")
                /\ CountVote(postId, "downVote")
                /\ SetReq(r, Respond(q, 200, "result"))
           ELSE /\ SetReq(r, [q EXCEPT !.pc = "unanswered"])
                /\ UNCHANGED <<posts, voted>>
    /\ UNCHANGED <<users, postSeq, comments, reports, reportSeq, payments, now, jar>>

\* the client of a request that got no answer gives up
Abandon(r) ==
    /\ req[r].pc = "unanswered"
    /\ SetReq(r, Idle)
    /\ UNCHANGED <<stores, now, voted, jar, overlapped>>

-----------------------------------------------------------------------------
(* Votes on the first of the posts ann creates, which she may delete, two  *)
(* requests at a time                                                      *)

AnnCookie == [present |-> TRUE, email |-> "a@x", iat |-> StartTime, signed |-> TRUE]

VotesFound ==
    LET RECURSIVE Sum(_)
        Sum(ids) == IF ids = {} THEN 0
                    ELSE LET id == CHOOSE i \in ids : TRUE
                         IN  voted[id].upVote + voted[id].downVote + Sum(ids \ {id})
    IN  Sum(DOMAIN voted)

NextVotes ==
    \E r \in Slots :
        \/ /\ postSeq + Creating < MaxPosts
           /\ CreatePostCount(r, AnnCookie, [authorEmail |-> "a@x", upVote |-> 0,
                                             downVote |-> 0])
        \/ CreatePostFindMember(r)
        \/ CreatePostInsert(r)
        \/ CreatePostDecrement(r)
        \/ DeletePostFind(r, AnnCookie, 1, [authorEmail |-> "a@x"])
        \/ DeletePostDelete(r)
        \/ DeletePostIncrement(r)
        \/ /\ VotesFound < MaxVotes
           /\ \E type \in {"up", "down", "sideways"} : Vote(r, 1, type)
        \/ Abandon(r)
        \/ Close(r)

SpecVotes == InitStores(<<Ann("non-member")>>) /\ [][NextVotes]_vars

\* every stored post's counters are the 0 it was created with plus the
\* votes of each kind that found it
VotesCounted ==
    \A id \in DOMAIN posts :
        /\ posts[id].upVote = 0 + voted[id].upVote
        /\ posts[id].downVote = 0 + voted[id].downVote

\* a vote of type up raises upVote of its post by 1 and leaves downVote,
\* one of type down raises downVote by 1 and leaves upVote, and whatever
\* the step no counter of a post that stays stored goes down
VoteSteps ==
    /\ \A r \in Slots :
          (req[r].pc = "idle" /\ req'[r].route = "PATCH /post/vote/:postId") =>
              LET id == req'[r].postId
                  type == req'[r].type
              IN  /\ DOMAIN posts' = DOMAIN posts
                  /\ \A i \in DOMAIN posts \ {id} : posts'[i] = posts[i]
                  /\ id \in DOMAIN posts =>
                        /\ type = "up" =>
                              /\ posts'[id].upVote = posts[id].upVote + 1
                              /\ posts'[id].downVote = posts[id].downVote
                        /\ type = "down" =>
                              /\ posts'[id].downVote = posts[id].downVote + 1
                              /\ posts'[id].upVote = posts[id].upVote
                        /\ type \notin {"up", "down"} => posts'[id] = posts[id]
                        /\ posts'[id].authorEmail = posts[id].authorEmail
    /\ \A id \in DOMAIN posts \cap DOMAIN posts' :
          /\ posts'[id].upVote >= posts[id].upVote
          /\ posts'[id].downVote >= posts[id].downVote

\* C17: a vote of type up adds exactly 1 to upVote of its post and leaves
\* downVote, a vote of type down adds exactly 1 to downVote and leaves
\* upVote; no counter of a stored post ever goes down; and after n answered
\* up-votes (down-votes) of a stored post its upVote (downVote) is n above
\* what it was created with, however the requests interleave
C17_Votes == []VotesCounted /\ [][VoteSteps]_vars

\* a post has been voted up twice while other requests were in progress
C17_Witness ==
    /\ overlapped
    /\ \E id \in DOMAIN posts : posts[id].upVote = 2 /\ posts[id].downVote = 0

-----------------------------------------------------------------------------
(* POST /auth/set-cookie and POST /auth/clear-cookies *)

\* jwt.sign(user, JWT_SECRET, {expiresIn: '7d'}) at time t: the payload is
\* the request body; iat is the body's iat when it has one and the time of
\* signing otherwise, exp is iat plus the seven days, and a body that
\* carries an exp of its own makes sign throw
jwtSign(user, t) ==
    IF "exp" \in DOMAIN user
    THEN [ok |-> FALSE]
    ELSE [ok |-> TRUE,
          token |-> [present |-> TRUE,
                     email |-> IF "email" \in DOMAIN user THEN user.email ELSE NoEmail,
                     iat |-> IF "iat" \in DOMAIN user THEN user.iat ELSE t,
                     signed |-> TRUE]]

\* the request arrives: jwt.sign, res.cookie('jwtToken', token).send; the
\* error sign throws is answered by the framework with 500
SetCookie(r, user) ==
    /\ Arrive(r)
    /\ LET s == jwtSign(user, now)
           q == [route |-> "POST /auth/set-cookie", pc |-> "sign", status |-> 0,
                 message |-> "", user |-> user, cookie |-> NoToken]
       IN  IF s.ok
           THEN /\ SetReq(r, Respond([q EXCEPT !.cookie = s.token], 200, "success"))
                /\ jar' = jar \cup {[token |-> s.token, issued |-> now]}
           ELSE /\ SetReq(r, Respond(q, 500, "Internal Server Error"))
                /\ jar' = jar
    /\ UNCHANGED <<stores, now, voted>>

\* the request arrives: res.clearCookie('jwtToken').send({success: true});
\* nothing of the server changes
ClearCookies(r) ==
    /\ Arrive(r)
    /\ SetReq(r, [route |-> "POST /auth/clear-cookies", pc |-> "done", status |-> 200,
                  message |-> "success"])
    /\ UNCHANGED <<stores, now, voted, jar>>

\* a day passes
Tick ==
    /\ now < MaxTime
    /\ now' = now + 1
    /\ UNCHANGED <<stores, req, overlapped, voted, jar>>

\* the tokens the clients have been issued
JarCookies == {j.token : j \in jar}

-----------------------------------------------------------------------------
(* The session of ann over the days: she creates and deletes posts and    *)
(* clears her cookie; the admin blocks her                                 *)

\* ann has signed in today
InitSession ==
    /\ users = <<Ann("non-member"), Bob("admin")>>
    /\ posts = <<>> /\ postSeq = 0
    /\ comments = {}
    /\ reports = <<>> /\ reportSeq = 0
    /\ payments = <<>>
    /\ req = NoRequests
    /\ now = StartTime
    /\ overlapped = FALSE
    /\ voted = NoVotes
    /\ jar = {[token |-> jwtSign([email |-> "a@x"], StartTime).token, issued |-> StartTime]}

NextSession ==
    \/ Tick
    \/ \E r \in Slots :
        \/ ClearCookies(r)
        \/ ReportActionCheck(r, BobCookie, [action |-> "block", reportId |-> 1,
                                            userEmail |-> "a@x", commentId |-> "c1"])
        \/ ReportActionBlock(r)
        \/ /\ postSeq + Creating < MaxPosts
           /\ \E cookie \in JarCookies :
                 CreatePostCount(r, cookie, [authorEmail |-> "a@x", upVote |-> 0,
                                             downVote |-> 0])
        \/ CreatePostFindMember(r)
        \/ CreatePostInsert(r)
        \/ CreatePostDecrement(r)
        \/ \E cookie \in JarCookies, id \in PostIds :
              DeletePostFind(r, cookie, id, [authorEmail |-> "a@x"])
        \/ DeletePostDelete(r)
        \/ DeletePostIncrement(r)
        \/ Close(r)

SpecSession == InitSession /\ [][NextSession]_vars

\* C18: a request of a gated route that presents an issued token before the
\* end of the token's seven days passes the gate with the token's identity,
\* whatever the user documents hold and whether or not the cookie was
\* cleared; a POST /posts of that identity goes on to the quota check, which
\* lets it insert whenever the count is within the tier's ceiling, blocked
\* or not, and a DELETE /posts/:id of a post of that identity goes on to
\* delete it
C18_NoRevocation ==
    [][\A r \in Slots :
          /\ (req[r].pc = "idle" /\ req'[r].route \in GatedRoutes) =>
                LET q == req'[r]
                    c == q.cookie
                IN  (c \in JarCookies /\ now < c.iat + 7) =>
                        /\ q.nexts = 1 /\ q.decoded.email = c.email
                        /\ (q.route = "POST /posts" /\ q.postData.authorEmail = c.email) =>
                              q.pc = "findMember"
                        /\ (q.route = "DELETE /posts/:id" /\ q.id \in DOMAIN posts
                               /\ posts[q.id].authorEmail = c.email) =>
                              q.pc = "deletePost"
          /\ (req[r].route = "POST /posts" /\ req[r].pc = "findMember"
                 /\ req'[r] # req[r]) =>
                (req'[r].pc = "insert" <=>
                    \E i \in 1..Len(users) :
                        /\ users[i].email = req[r].decoded.email
                        /\ ~(users[i].memberShip = "non-member" /\ req[r].postCount > 5)
                        /\ ~(users[i].memberShip = "member" /\ req[r].postCount > 10))
          /\ (req[r].route = "POST /posts" /\ req[r].pc = "insert" /\ req'[r] # req[r]) =>
                DOMAIN posts' # DOMAIN posts
          /\ (req[r].route = "DELETE /posts/:id" /\ req[r].pc = "deletePost"
                 /\ req'[r] # req[r]) =>
                req[r].id \notin DOMAIN posts'
      ]_vars

\* with no two requests ever overlapping: ann was blocked, her cookie was
\* cleared, and she has since created a post with her token
C18_Witness ==
    /\ ~overlapped
    /\ users[1].email = "a@x" /\ users[1].isBlocked
    /\ req[1].route = "POST /auth/clear-cookies" /\ req[1].pc = "done"
    /\ req[2].route = "POST /posts" /\ req[2].pc = "decrement"
    /\ req[2].decoded.email = "a@x"
    /\ \E id \in DOMAIN posts : posts[id].authorEmail = "a@x"

-----------------------------------------------------------------------------
(* Tokens over the days: clients sign in with bodies of their choosing and *)
(* present what they were issued, or a forgery of it, to a gated route     *)

\* the iat claims a client may put in the body it sends to be signed
BodyIats == {0, MaxTime}

\* what a client may send to POST /auth/set-cookie
SignInBodies ==
    {[email |-> "a@x"]}
        \cup {[email |-> "a@x", iat |-> i] : i \in BodyIats}
        \cup {[email |-> "a@x", exp |-> MaxTime]}

\* a token with the payload of an issued one and another signature
Forged(token) == [token EXCEPT !.signed = FALSE]

NextExpiry ==
    \/ Tick
    \/ \E r \in Slots :
        \/ /\ Cardinality(jar) < MaxTokens
           /\ \E user \in SignInBodies : SetCookie(r, user)
        \/ \E cookie \in JarCookies \cup {Forged(c) : c \in JarCookies} \cup {NoToken} :
              OwnCount(r, cookie, "a@x")
        \/ Close(r)

SpecExpiry == InitMembership /\ [][NextExpiry]_vars

\* C19: a gated request that presents an issued token more than seven days
\* after the server issued it is rejected by the gate, next() uncalled, the
\* error of the verification being the expiry error; one that presents it
\* less than seven days after it was issued passes with the email the token
\* was issued for
C19_SevenDaysFromIssue ==
    [][\A r \in Slots :
          (req[r].pc = "idle" /\ req'[r].route \in GatedRoutes) =>
              LET q == req'[r]
                  c == q.cookie
                  issues == {j \in jar : j.token = c}
              IN  /\ (issues # {} /\ \A j \in issues : now > j.issued + 7) =>
                         /\ JwtError(c, now) = "TokenExpiredError"
                         /\ q.pc = "done" /\ q.status = 403 /\ q.nexts = 0
                  /\ (\E j \in issues : now < j.issued + 7) =>
                         /\ JwtError(c, now) = "none"
                         /\ q.nexts = 1 /\ q.decoded.email = c.email
      ]_vars

-----------------------------------------------------------------------------
(* Creations of one author, two requests at a time, up to the quota *)

NextQuotaRace ==
    \E r \in Slots :
        \/ /\ postSeq + Creating < MaxQuotaPosts
           /\ CreatePostCount(r, AnnCookie, [authorEmail |-> "a@x", upVote |-> 0,
                                             downVote |-> 0])
        \/ CreatePostFindMember(r)
        \/ CreatePostInsert(r)
        \/ CreatePostDecrement(r)
        \/ Close(r)

SpecQuotaRace == InitQuota /\ [][NextQuotaRace]_vars

\* C20: as long as no creation has started while another was in progress, a
\* non-member holds at most 6 posts and a member at most 11
C20_QuotaInTurn ==
    ~overlapped =>
        \A i \in 1..Len(users) :
            /\ users[i].memberShip = "non-member" => CountPosts(posts, users[i].email) <= 6
            /\ users[i].memberShip = "member" => CountPosts(posts, users[i].email) <= 11

\* two creations of a non-member that both counted 5 posts have both
\* inserted: the non-member holds 7
C20_Witness ==
    /\ users[1].memberShip = "non-member"
    /\ CountPosts(posts, users[1].email) = 7
    /\ \A r \in Slots : /\ req[r].route = "POST /posts" /\ req[r].pc = "decrement"
                        /\ req[r].postCount = 5

-----------------------------------------------------------------------------
(* Storage calls that reject *)

\* the routes whose awaited storage calls may reject below
FaultRoutes == {"POST /posts", "DELETE /posts/:id", "PATCH /reports/action",
                "POST /membership", "PATCH /makeAdmin/:id"}

\* the awaited call of the request stands inside a try block of its handler:
\* of these routes only PATCH /makeAdmin/:id has one
Caught(q) == q.route = "PATCH /makeAdmin/:id" /\ q.pc = "update"

\* what becomes of a rejection no try block catches. The async handler's
\* promise rejects; the source names neither the version of express nor that
\* of node, and registers no error middleware and no process listener:
\*   "error-handler": the router passes the rejection to its default error
\*       handler, which answers 500 (express 5)
\*   "unhandled": the router drops the promise, the rejection is reported
\*       and the request stays open without a response (express 4, the
\*       rejection only warned about)
\*   "exit": the unhandled rejection ends the process, and every request in
\*       progress loses its connection (express 4, node's default since 15)
UncaughtOutcomes == {"error-handler", "unhandled", "exit"}

\* the request whose awaited call rejected, as the rejection leaves it
Thrown(q, outcome) ==
    LET f == [failedAt |-> q.pc] @@ q
    IN  IF Caught(q) THEN Respond(f, 500, "Failed to make admin")
        ELSE IF outcome = "error-handler" THEN Respond(f, 500, "Internal Server Error")
        ELSE [f EXCEPT !.pc = "unanswered"]

\* the storage call the request waits for rejects instead of taking effect
StorageThrowsAndCompensates(r, outcome) ==
    /\ req[r].route \in FaultRoutes
    /\ InProgress(req[r]) /\ req[r].pc # "unanswered"
    /\ req' = [r2 \in Slots |->
                 IF r2 = r THEN Thrown(req[r], outcome)
                 ELSE IF outcome = "exit" /\ ~Caught(req[r])
                         /\ InProgress(req[r2]) /\ req[r2].pc # "unanswered"
                 THEN [req[r2] EXCEPT !.pc = "unanswered"]
                 ELSE req[r2]]
    /\ comments' = IF req[r].route = "PATCH /reports/action" /\ req[r].pc = "delete-report"
                   THEN comments \cup {req[r].body.commentId}
                   ELSE comments
    /\ UNCHANGED <<users, posts, postSeq, reports, reportSeq, payments, now, voted, jar,
                   overlapped>>
StorageThrows(r, outcome) ==
    /\ req[r].route \in FaultRoutes
    /\ InProgress(req[r]) /\ req[r].pc # "unanswered"
    /\ req' = [r2 \in Slots |->
                 IF r2 = r THEN Thrown(req[r], outcome)
                 ELSE IF outcome = "exit" /\ ~Caught(req[r])
                         /\ InProgress(req[r2]) /\ req[r2].pc # "unanswered"
                 THEN [req[r2] EXCEPT !.pc = "unanswered"]
                 ELSE req[r2]]
    /\ UNCHANGED <<stores, now, voted, jar, overlapped>>

\* the request's awaited call has rejected
Threw(q) == "failedAt" \in DOMAIN q

-----------------------------------------------------------------------------
(* Posts, moderation and purchases, two requests at a time, with storage   *)
(* calls that may reject                                                   *)

\* the posts created and the purchases made while storage calls may reject
MaxFaultPosts == 1
MaxFaultPayments == 1

NextFaults ==
    \E r \in Slots :
        \/ /\ postSeq + Creating < MaxFaultPosts
           /\ CreatePostCount(r, AnnCookie, [authorEmail |-> "a@x", upVote |-> 0,
                                             downVote |-> 0])
        \/ CreatePostFindMember(r)
        \/ CreatePostInsert(r)
        \/ CreatePostDecrement(r)
        \/ DeletePostFind(r, AnnCookie, 1, [authorEmail |-> "a@x"])
        \/ DeletePostDelete(r)
        \/ DeletePostIncrement(r)
        \/ ReportActionCheck(r, BobCookie, [action |-> "delete-comment", reportId |-> 1,
                                            userEmail |-> "a@x", commentId |-> "c1"])
        \/ ReportActionDeleteComment(r)
        \/ ReportActionDeleteReport(r)
        \/ /\ Len(payments) < MaxFaultPayments
           /\ MembershipInsertPayment(r, [email |-> "a@x"])
        \/ MembershipUpdate(r)
        \/ MakeAdminCheck(r, BobCookie, 1)
        \/ MakeAdminUpdate(r)
        \/ \E outcome \in UncaughtOutcomes : StorageThrows(r, outcome)
        \/ Abandon(r)
        \/ Close(r)

SpecFaults == InitActions /\ [][NextFaults]_vars

\* C21: a request whose storage call rejected is answered, with a status of
\* 500 or above: no rejection leaves a request without a response
C21_RejectionsAnswered5xx ==
    \A r \in Slots :
        Threw(req[r]) => req[r].pc = "done" /\ req[r].status >= 500

\* C22: when the call a request waits for after its first write rejects, or
\* the process ends there, no store changes: the post POST /posts inserted
\* stays and postLimit keeps its value, the comment delete-comment deleted
\* stays deleted and the report stays, the post DELETE /posts/:id deleted
\* stays deleted and postLimit keeps its value
AfterFirstWrite(q) ==
    \/ q.route = "POST /posts" /\ q.pc = "decrement"
    \/ q.route = "PATCH /reports/action" /\ q.pc = "delete-report"
    \/ q.route = "DELETE /posts/:id" /\ q.pc = "increment"
C22_NoRollback ==
    [][\A r \in Slots :
          (AfterFirstWrite(req[r]) /\ (Threw(req'[r]) \/ req'[r].pc = "unanswered")) =>
              stores' = stores
      ]_vars

\* three failures in a row: the creation's decrement rejected, and the post
\* is stored with postLimit at its initial 5; then the deletion's increment
\* rejected, and the post is gone; then the deletion of the report rejected,
\* and the comment is gone while the report is stored
C22_Witness ==
    /\ Threw(req[1]) /\ req[1].route = "PATCH /reports/action"
    /\ req[1].failedAt = "delete-report"
    /\ "c1" \notin comments /\ 1 \in DOMAIN reports
    /\ Threw(req[2]) /\ req[2].route = "POST /posts" /\ req[2].failedAt = "decrement"
    /\ CountPosts(posts, "a@x") = 1 /\ users[2].postLimit = 5

-----------------------------------------------------------------------------
(* Deletions of one post that interleave *)

\* C23: postLimit rises once per post removed. From the initial state, where
\* every user has postLimit 5 and no post, postLimit plus the user's stored
\* posts, with the increments the deletions in progress still owe and the
\* decrements the creations in progress still owe, is 5 in every state: two
\* deletions of one post that both found it owe one increment between them
C23_OneIncrementPerRemovedPost ==
    \A i \in 1..Len(users) :
        Balance(users, posts, i) + Owed(i) = Ann("non-member").postLimit

-----------------------------------------------------------------------------
(* Registrations with any role in the body, and promotions, two requests   *)
(* at a time, on a user collection that holds the admin bob                *)

\* what any client may send to POST /users: req.body is stored as it comes,
\* whatever it says of role
RoleBodies == {User(email, "ann", role, "non-member") :
                  email \in Emails, role \in {"user", "admin"}}

NextRoles ==
    \E r \in Slots :
        \/ \E userData \in RoleBodies, ip \in Ips :
              /\ \/ FindUserBy(users, "email", userData.email) # 0
                 \/ Len(users) + Registering < MaxUsers
              /\ RegisterFindEmail(r, userData, ip)
        \/ RegisterFindUsername(r)
        \/ RegisterUpdate(r)
        \/ RegisterInsert(r)
        \/ \E cookie \in {NoToken, AnnCookie, BobCookie}, id \in 1..MaxUsers :
              MakeAdminCheck(r, cookie, id)
        \/ MakeAdminUpdate(r)
        \/ Close(r)

SpecRoles == InitStores(<<Bob("admin")>>) /\ [][NextRoles]_vars

\* C24: a user document that has role "admin" after a step had it before the
\* step, or the step is the update of a PATCH /makeAdmin/:id request for
\* that document that verifyAdmin admitted
C24_AdminOnlyByPromotion ==
    [][\A i \in 1..Len(users') :
          users'[i].role = "admin" =>
              \/ i \in 1..Len(users) /\ users[i].role = "admin"
              \/ \E r \in Slots :
                    /\ req[r].route = "PATCH /makeAdmin/:id"
                    /\ req[r].pc = "update" /\ req'[r].pc = "done"
                    /\ req[r].admitted
                    /\ req[r].id = i
      ]_vars

-----------------------------------------------------------------------------
(* Handlers that return without a response *)

\* C25: every handler path sends a response: no request is ever left at the
\* end of its handler, every storage call having returned, without one
C25_EveryPathResponds ==
    \A r \in Slots : req[r].pc # "unanswered"

-----------------------------------------------------------------------------
(* One author who registers with any memberShip in the body and then fills *)
(* the quota, one request after the other                                  *)

\* member.memberShip of a document that has no such field
NoMemberShip == "undefined"

\* what any client may send to POST /users: req.body is stored as it comes,
\* whatever it says of memberShip
TierBodies == {User("a@x", "ann", "user", memberShip) :
                  memberShip \in MemberShips \cup {"gold", NoMemberShip}}

NextAnyTier ==
    \/ \E userData \in TierBodies :
          /\ \/ FindUserBy(users, "email", userData.email) # 0
             \/ Len(users) + Registering < MaxUsers
          /\ RegisterFindEmail(1, userData, "ip1")
    \/ RegisterFindUsername(1)
    \/ RegisterUpdate(1)
    \/ RegisterInsert(1)
    \/ /\ postSeq < MaxQuotaPosts
       /\ CreatePostCount(1, AnnCookie, [authorEmail |-> "a@x", upVote |-> 0,
                                         downVote |-> 0])
    \/ CreatePostFindMember(1)
    \/ CreatePostInsert(1)
    \/ CreatePostDecrement(1)
    \/ Close(1)

SpecAnyTier == InitStores(<<>>) /\ [][NextAnyTier]_vars

\* C26: as long as no request has started while another was in progress, an
\* author with a user document holds at most 11 posts, whatever memberShip
\* the document has
C26_CeilingForAnyTier ==
    ~overlapped =>
        \A i \in 1..Len(users) : CountPosts(posts, users[i].email) <= 11

-----------------------------------------------------------------------------
(* The comment a delete-comment action removes *)

\* C27: the comment deletion of a delete-comment action whose reportId names
\* a stored report removes no comment but the one that report references
C27_DeletesOnlyReportedComment ==
    [][\A r \in Slots :
          ( /\ ActionStep(r) /\ req[r].pc = "delete-comment"
            /\ req[r].body.reportId \in DOMAIN reports )
          => \A c \in comments \ comments' :
                 c = reports[req[r].body.reportId].commentId
      ]_vars

====
